---- MODULE Spec2Model ----
(***************************************************************************)
(* Scan orchestration of vibe-checker: the POST /scans route, the          *)
(* background execution (executeScanInBackground), ScanExecutionService    *)
(* with its tool adapters, the job store (scanResults) and the findings    *)
(* store (mockFindings).                                                   *)
(*                                                                         *)
(* One action is one turn of the Node event loop (a request handler, the   *)
(* callback of a network response, a timer callback) together with the     *)
(* promise continuations that run before the next turn.  The POST handler  *)
(* is cut in two at res.json so that the order "launch, then respond" of   *)
(* its lines is visible; nothing else can run between the two halves.      *)
(*                                                                         *)
(* Date.now() is the variable now (milliseconds); the clock is observed at *)
(* the granularity of the poll interval.  Math.random() is idealised as a  *)
(* draw that never repeats (rnd counts the draws that end up in an id).    *)
(* The handlers that only read (status, progress, cancel, findings query)  *)
(* change no state: their answer is an operator of the state they run in.  *)
(* lastResp is the answer to the last POST /scans, or to a cancel, policy  *)
(* or finding-status request whose answer is kept.  probe is the last      *)
(* direct application of one of the pure functions (exclusion filter, tag  *)
(* and severity mappings) with its arguments and its value.                *)
(* policiesMockPolicies is the array mockPolicies of the policy routes;    *)
(* mockPolicies is the array of the same name in the scan routes.          *)
(***************************************************************************)
EXTENDS Integers, Sequences, FiniteSets, TLC

VARIABLES now, rnd, scanResults, mockFindings, calls, handler, lastResp, probe,
          policiesMockPolicies

vars == <<now, rnd, scanResults, mockFindings, calls, handler, lastResp, probe,
          policiesMockPolicies>>

-----------------------------------------------------------------------------
(* Bounds of the model *)

MaxJobs == 2
MaxTicks == 2
MaxLatency == 1
MaxRaw == 1
MaxAlerts == 2
MaxPatterns == 2
MaxEntries == 2
MaxCreated == 1
MaxDirectTools == 2

(* Program constants *)

SpiderMaxWaitMs == 120000
PollIntervalMs == 5000
PassiveSettleMs == 10000
EstimatedDuration == 1800

TickMs == PollIntervalMs

-----------------------------------------------------------------------------
(* Identifiers, targets, policies *)

IdUrl == [type |-> "url", value |-> "http://app.test"]
IdNpmA == [type |-> "npm", value |-> "lodash@4.17.0"]
IdNpmB == [type |-> "pypi", value |-> "flask@0.12"]
IdNpmC == [type |-> "maven", value |-> "log4j@2.0"]
IdImageA == [type |-> "container", value |-> "alpine:3.1"]
IdImageB == [type |-> "image", value |-> "nginx:1.0"]
IdRepo == [type |-> "repository", value |-> "owner/repo"]
IdBadRepo == [type |-> "repository", value |-> "norepo"]

DefaultTestIdentifiers == <<[type |-> "url", value |-> "http://testphp.vulnweb.com"]>>

mockPolicies ==
    << [id |-> "policy-default-safe", mode |-> "safe", maxReqPerMin |-> 120,
        spiderDepth |-> 5, allowedTools |-> <<"ZAP", "OSV">>],
       [id |-> "policy-quick-scan", mode |-> "safe", maxReqPerMin |-> 200,
        spiderDepth |-> 1, allowedTools |-> <<"ZAP", "OSV">>],
       [id |-> "policy-comprehensive", mode |-> "safe", maxReqPerMin |-> 80,
        spiderDepth |-> 10, allowedTools |-> <<"ZAP", "OSV">>],
       [id |-> "policy-dependency-only", mode |-> "safe", maxReqPerMin |-> 100,
        spiderDepth |-> 1, allowedTools |-> <<"OSV">>] >>

Range(s) == {s[i] : i \in 1..Len(s)}

\* Array.prototype.find over mockPolicies: the first entry with the id, or
\* Undefined.
Undefined == [undefined |-> TRUE]

FindPolicy(policyId) ==
    LET hits == {i \in 1..Len(mockPolicies) : mockPolicies[i].id = policyId}
    IN IF hits = {} THEN Undefined
       ELSE mockPolicies[CHOOSE i \in hits : \A j \in hits : i <= j]

\* String.prototype.toLowerCase on the tool names that occur.
ToLowerCase(tool) ==
    CASE tool = "ZAP" -> "zap"
      [] tool = "OSV" -> "osv"
      [] tool = "Semgrep" -> "semgrep"
      [] tool = "Trivy" -> "trivy"
      [] tool = "GitHub" -> "github"
      [] OTHER -> tool

-----------------------------------------------------------------------------
(* Raw tool output.  The external services answer with lists of raw        *)
(* records; ZapAlert(i) etc. is the i-th record of the list the model lets *)
(* a service return.                                                       *)

ZapAlert(i) ==
    CASE i % 4 = 1 -> [name |-> "Banner", risk |-> "Informational",
                       url |-> "http://app.test/api/admin/y"]
      [] i % 4 = 2 -> [name |-> "Cookie", risk |-> "Low",
                       url |-> "http://app.test/api/public/y"]
      [] i % 4 = 3 -> [name |-> "SQL Injection", risk |-> "High",
                       url |-> "http://app.test/"]
      [] OTHER -> [name |-> "Odd", risk |-> "Severe", url |-> "http://app.test/x"]

\* severity of an OSV vulnerability.  isArray tells a list of entries from
\* any other value (a missing field among them).  An entry's score is a
\* number, kept times ten (90 is 9.0), or a string that is not a numeral
\* (a CVSS vector), or is missing.
Score(x) == [type |-> "number", score |-> x]
VectorScore == [type |-> "string", score |-> 0]
NoScore == [type |-> "undefined", score |-> 0]
SeverityList(entries) == [isArray |-> TRUE, entries |-> entries]
NoSeverity == [isArray |-> FALSE, entries |-> <<>>]

OsvVuln(i) ==
    CASE i % 3 = 1 -> [id |-> "GHSA-1", summary |-> "vuln one",
                       severity |-> SeverityList(<<Score(90)>>)]
      [] i % 3 = 2 -> [id |-> "GHSA-2", summary |-> "vuln two",
                       severity |-> SeverityList(<<Score(50), Score(89)>>)]
      [] OTHER -> [id |-> "GHSA-3", summary |-> "vuln three",
                   severity |-> SeverityList(<<>>)]

TrivyVuln(i) ==
    CASE i % 2 = 1 -> [vulnerability_id |-> "CVE-1", severity |-> "CRITICAL",
                       package_name |-> "openssl", installed_version |-> "1.0"]
      [] OTHER -> [vulnerability_id |-> "CVE-2", severity |-> "UNKNOWN",
                   package_name |-> "zlib", installed_version |-> "1.2"]

SemgrepResult(i) ==
    CASE i % 2 = 1 -> [check_id |-> "js.sql", severity |-> "ERROR", path |-> "a.js"]
      [] OTHER -> [check_id |-> "js.log", severity |-> "INFO", path |-> "b.js"]

GitHubAdvisory(i) ==
    CASE i % 2 = 1 -> [ghsa_id |-> "GHSA-9", severity |-> "moderate"]
      [] OTHER -> [ghsa_id |-> "GHSA-8", severity |-> "high"]

-----------------------------------------------------------------------------
(* Severity mapping *)

\* The severity maps are object literals, read with map[key] || 'medium'.
\* A key the literal does not list is looked up in Object.prototype: for the
\* name of one of its members the lookup gives that member, which is truthy,
\* and for every other key (a missing value reads the key 'undefined') it
\* gives undefined.
ObjectPrototypeKeys == {"constructor", "toString", "__proto__"}

InheritedMember(key) ==
    CASE key = "constructor" -> "[Function: Object]"
      [] key = "toString" -> "[Function: toString]"
      [] OTHER -> "[Object: null prototype] {}"

MapOrMedium(own, key) ==
    IF key \in DOMAIN own THEN own[key]
    ELSE IF key \in ObjectPrototypeKeys THEN InheritedMember(key)
    ELSE "medium"

riskMap ==
    [k \in {"High", "Medium", "Low", "Informational"} |->
        CASE k = "High" -> "high"
          [] k = "Medium" -> "medium"
          [] k = "Low" -> "low"
          [] OTHER -> "info"]

mapZapRiskToSeverity(zapRisk) == MapOrMedium(riskMap, zapRisk)

\* (s.score || 0) > (highest.score || 0): a string that is not a numeral
\* compares as NaN, a missing score reads 0
ScoreGreater(s, highest) == s.type = "number" /\ s.score > highest.score

\* severity.reduce((highest, s) => ... ? s : highest, {score: 0})
RECURSIVE HighestScore(_, _)
HighestScore(entries, highest) ==
    IF entries = <<>> THEN highest
    ELSE HighestScore(Tail(entries),
                      IF ScoreGreater(Head(entries), highest) THEN Head(entries)
                      ELSE highest)

\* a mapping that puts the score 9.0 itself into the bucket below
mapOSVSeverityToSeverityAbove(severity) ==
    IF ~severity.isArray THEN "medium"
    ELSE LET highestSeverity == HighestScore(severity.entries, Score(0))
         IN IF highestSeverity.score > 90 THEN "critical"
            ELSE IF highestSeverity.score >= 70 THEN "high"
            ELSE IF highestSeverity.score >= 40 THEN "medium"
            ELSE "low"

mapOSVSeverityToSeverity(severity) ==
    IF ~severity.isArray THEN "medium"
    ELSE LET highestSeverity == HighestScore(severity.entries, Score(0))
         IN IF highestSeverity.score >= 90 THEN "critical"
            ELSE IF highestSeverity.score >= 70 THEN "high"
            ELSE IF highestSeverity.score >= 40 THEN "medium"
            ELSE "low"

semgrepSeverityMap ==
    [k \in {"ERROR", "WARNING", "INFO"} |->
        CASE k = "ERROR" -> "high"
          [] k = "WARNING" -> "medium"
          [] OTHER -> "low"]

mapSemgrepSeverityToSeverity(severity) == MapOrMedium(semgrepSeverityMap, severity)

trivySeverityMap ==
    [k \in {"CRITICAL", "HIGH", "MEDIUM", "LOW", "UNKNOWN"} |->
        CASE k = "CRITICAL" -> "critical"
          [] k = "HIGH" -> "high"
          [] k = "MEDIUM" -> "medium"
          [] OTHER -> "low"]

mapTrivySeverityToSeverity(severity) == MapOrMedium(trivySeverityMap, severity)

githubSeverityMap ==
    [k \in {"critical", "high", "moderate", "low"} |->
        CASE k = "critical" -> "critical"
          [] k = "high" -> "high"
          [] k = "moderate" -> "medium"
          [] OTHER -> "low"]

mapGitHubSeverityToSeverity(severity) == MapOrMedium(githubSeverityMap, severity)

CountSeverity(findings, sev) ==
    Cardinality({i \in 1..Len(findings) : findings[i].severity = sev})

calculateSummary(findings) ==
    [total |-> Len(findings),
     critical |-> CountSeverity(findings, "critical"),
     high |-> CountSeverity(findings, "high"),
     medium |-> CountSeverity(findings, "medium"),
     low |-> CountSeverity(findings, "low")]

-----------------------------------------------------------------------------
(* Exclusion filter.  Strings are atoms in the model; Chars gives the      *)
(* characters of the URLs, patterns, alert names and substrings that       *)
(* occur ("" and every other string have no characters here).  Patterns    *)
(* are made of literal characters, "*" and "."                             *)

Chars(str) ==
    CASE str = "http://app.test/api/admin/y" ->
            <<"h", "t", "t", "p", ":", "/", "/", "a", "p", "p", ".", "t", "e", "s", "t", "/", "a", "p", "i", "/", "a", "d", "m", "i", "n", "/", "y">>
      [] str = "http://app.test/api/public/y" ->
            <<"h", "t", "t", "p", ":", "/", "/", "a", "p", "p", ".", "t", "e", "s", "t", "/", "a", "p", "i", "/", "p", "u", "b", "l", "i", "c", "/", "y">>
      [] str = "http://app.test/" ->
            <<"h", "t", "t", "p", ":", "/", "/", "a", "p", "p", ".", "t", "e", "s", "t", "/">>
      [] str = "http://app.test/x" ->
            <<"h", "t", "t", "p", ":", "/", "/", "a", "p", "p", ".", "t", "e", "s", "t", "/", "x">>
      [] str = "http://x/api/admin/y" ->
            <<"h", "t", "t", "p", ":", "/", "/", "x", "/", "a", "p", "i", "/", "a", "d", "m", "i", "n", "/", "y">>
      [] str = "http://x/api/public/y" ->
            <<"h", "t", "t", "p", ":", "/", "/", "x", "/", "a", "p", "i", "/", "p", "u", "b", "l", "i", "c", "/", "y">>
      [] str = "*/admin/*" ->
            <<"*", "/", "a", "d", "m", "i", "n", "/", "*">>
      [] str = "/api/" ->
            <<"/", "a", "p", "i", "/">>
      [] str = "x.api" ->
            <<"x", ".", "a", "p", "i">>
      [] str = "*" ->
            <<"*">>
      [] str = "SQL Injection" ->
            <<"S", "Q", "L", " ", "I", "n", "j", "e", "c", "t", "i", "o", "n">>
      [] str = "Reflected XSS" ->
            <<"R", "e", "f", "l", "e", "c", "t", "e", "d", " ", "X", "S", "S">>
      [] str = "CSRF Token Missing" ->
            <<"C", "S", "R", "F", " ", "T", "o", "k", "e", "n", " ", "M", "i", "s", "s", "i", "n", "g">>
      [] str = "SSRF" ->
            <<"S", "S", "R", "F">>
      [] str = "Weak Authentication" ->
            <<"W", "e", "a", "k", " ", "A", "u", "t", "h", "e", "n", "t", "i", "c", "a", "t", "i", "o", "n">>
      [] str = "Missing Authorization" ->
            <<"M", "i", "s", "s", "i", "n", "g", " ", "A", "u", "t", "h", "o", "r", "i", "z", "a", "t", "i", "o", "n">>
      [] str = "Broken Access Control" ->
            <<"B", "r", "o", "k", "e", "n", " ", "A", "c", "c", "e", "s", "s", " ", "C", "o", "n", "t", "r", "o", "l">>
      [] str = "Security Misconfiguration" ->
            <<"S", "e", "c", "u", "r", "i", "t", "y", " ", "M", "i", "s", "c", "o", "n", "f", "i", "g", "u", "r", "a", "t", "i", "o", "n">>
      [] str = "Weak TLS" ->
            <<"W", "e", "a", "k", " ", "T", "L", "S">>
      [] str = "Command Injection" ->
            <<"C", "o", "m", "m", "a", "n", "d", " ", "I", "n", "j", "e", "c", "t", "i", "o", "n">>
      [] str = "Author Disclosure" ->
            <<"A", "u", "t", "h", "o", "r", " ", "D", "i", "s", "c", "l", "o", "s", "u", "r", "e">>
      [] str = "Cookie Without Flag" ->
            <<"C", "o", "o", "k", "i", "e", " ", "W", "i", "t", "h", "o", "u", "t", " ", "F", "l", "a", "g">>
      [] str = "sql injection" ->
            <<"s", "q", "l", " ", "i", "n", "j", "e", "c", "t", "i", "o", "n">>
      [] str = "sqli" ->
            <<"s", "q", "l", "i">>
      [] str = "xss" ->
            <<"x", "s", "s">>
      [] str = "cross-site scripting" ->
            <<"c", "r", "o", "s", "s", "-", "s", "i", "t", "e", " ", "s", "c", "r", "i", "p", "t", "i", "n", "g">>
      [] str = "csrf" ->
            <<"c", "s", "r", "f">>
      [] str = "cross-site request forgery" ->
            <<"c", "r", "o", "s", "s", "-", "s", "i", "t", "e", " ", "r", "e", "q", "u", "e", "s", "t", " ", "f", "o", "r", "g", "e", "r", "y">>
      [] str = "authentication" ->
            <<"a", "u", "t", "h", "e", "n", "t", "i", "c", "a", "t", "i", "o", "n">>
      [] str = "auth" ->
            <<"a", "u", "t", "h">>
      [] str = "authorization" ->
            <<"a", "u", "t", "h", "o", "r", "i", "z", "a", "t", "i", "o", "n">>
      [] str = "access control" ->
            <<"a", "c", "c", "e", "s", "s", " ", "c", "o", "n", "t", "r", "o", "l">>
      [] str = "ssrf" ->
            <<"s", "s", "r", "f">>
      [] str = "server-side request forgery" ->
            <<"s", "e", "r", "v", "e", "r", "-", "s", "i", "d", "e", " ", "r", "e", "q", "u", "e", "s", "t", " ", "f", "o", "r", "g", "e", "r", "y">>
      [] str = "injection" ->
            <<"i", "n", "j", "e", "c", "t", "i", "o", "n">>
      [] str = "misconfiguration" ->
            <<"m", "i", "s", "c", "o", "n", "f", "i", "g", "u", "r", "a", "t", "i", "o", "n">>
      [] str = "configuration" ->
            <<"c", "o", "n", "f", "i", "g", "u", "r", "a", "t", "i", "o", "n">>
      [] str = "crypto" ->
            <<"c", "r", "y", "p", "t", "o">>
      [] str = "encryption" ->
            <<"e", "n", "c", "r", "y", "p", "t", "i", "o", "n">>
      [] str = "ssl" ->
            <<"s", "s", "l">>
      [] str = "tls" ->
            <<"t", "l", "s">>
      [] str = "sql" ->
            <<"s", "q", "l">>
      [] str = "cipher" ->
            <<"c", "i", "p", "h", "e", "r">>
      [] str = "log" ->
            <<"l", "o", "g">>
      [] str = "logging" ->
            <<"l", "o", "g", "g", "i", "n", "g">>
      [] str = "js.sql" ->
            <<"j", "s", ".", "s", "q", "l">>
      [] str = "js.log" ->
            <<"j", "s", ".", "l", "o", "g">>
      [] str = "js.misc" ->
            <<"j", "s", ".", "m", "i", "s", "c">>
      [] str = "js.auth-bypass" ->
            <<"j", "s", ".", "a", "u", "t", "h", "-", "b", "y", "p", "a", "s", "s">>
      [] str = "SQL Injection found" ->
            <<"S", "Q", "L", " ", "I", "n", "j", "e", "c", "t", "i", "o", "n", " ", "f", "o", "u", "n", "d">>
      [] str = "unused variable" ->
            <<"u", "n", "u", "s", "e", "d", " ", "v", "a", "r", "i", "a", "b", "l", "e">>
      [] OTHER -> <<>>

\* Does the regular expression re (a "*" of the pattern stands for ".*")
\* match a prefix of txt?
RECURSIVE MatchHere(_, _)
MatchHere(re, txt) ==
    IF re = <<>> THEN TRUE
    ELSE IF Head(re) = "*"
         THEN \E k \in 0..Len(txt) : MatchHere(Tail(re), SubSeq(txt, k + 1, Len(txt)))
         ELSE /\ txt # <<>>
              /\ Head(re) = Head(txt) \/ Head(re) = "."
              /\ MatchHere(Tail(re), Tail(txt))

\* new RegExp(pattern.replace(/\*/g, '.*')).test(alertUrl): unanchored.
RegexTest(pattern, url) ==
    \E k \in 0..Len(Chars(url)) :
        MatchHere(Chars(pattern), SubSeq(Chars(url), k + 1, Len(Chars(url))))

\* a filter that drops an alert only when every pattern matches
ExcludedByAll(alert, exclusions) ==
    \A p \in 1..Len(exclusions) : RegexTest(exclusions[p], alert.url)

Excluded(alert, exclusions) ==
    \E p \in 1..Len(exclusions) : RegexTest(exclusions[p], alert.url)

FilterAlerts(alerts, exclusions) ==
    IF Len(exclusions) > 0
    THEN SelectSeq(alerts, LAMBDA a : ~Excluded(a, exclusions))
    ELSE alerts

-----------------------------------------------------------------------------
(* OWASP Top 10 tags *)

\* String.prototype.toLowerCase, character by character
LowerChar(c) ==
    CASE c = "A" -> "a"
      [] c = "B" -> "b"
      [] c = "C" -> "c"
      [] c = "D" -> "d"
      [] c = "E" -> "e"
      [] c = "F" -> "f"
      [] c = "G" -> "g"
      [] c = "H" -> "h"
      [] c = "I" -> "i"
      [] c = "J" -> "j"
      [] c = "K" -> "k"
      [] c = "L" -> "l"
      [] c = "M" -> "m"
      [] c = "N" -> "n"
      [] c = "O" -> "o"
      [] c = "P" -> "p"
      [] c = "Q" -> "q"
      [] c = "R" -> "r"
      [] c = "S" -> "s"
      [] c = "T" -> "t"
      [] c = "U" -> "u"
      [] c = "V" -> "v"
      [] c = "W" -> "w"
      [] c = "X" -> "x"
      [] c = "Y" -> "y"
      [] c = "Z" -> "z"
      [] OTHER -> c

ToLower(chars) == [i \in 1..Len(chars) |-> LowerChar(chars[i])]

\* String.prototype.includes for a substring that is not empty
Includes(chars, sub) ==
    \E k \in 1..(Len(chars) - Len(Chars(sub)) + 1) :
        SubSeq(chars, k, k + Len(Chars(sub)) - 1) = Chars(sub)

\* the keys of cweToOwasp and its entries; the object literal has the key
\* '306' twice (['A01'], then ['A07']) and the later one is the entry
CweKeys ==
    {284, 285, 639, 327, 326, 330, 759, 760, 89, 78, 79, 91, 564, 943, 917, 693,
     16, 209, 215, 538, 1104, 287, 306, 798, 256, 521, 307, 494, 502, 829, 778,
     117, 918}

cweToOwasp(cwe) ==
    CASE cwe \in {284, 285, 639} -> <<"A01">>
      [] cwe \in {327, 326, 330, 759, 760} -> <<"A02">>
      [] cwe \in {89, 78, 79, 91, 564, 943, 917} -> <<"A03">>
      [] cwe = 693 -> <<"A04">>
      [] cwe \in {16, 209, 215, 538} -> <<"A05">>
      [] cwe = 1104 -> <<"A06">>
      [] cwe \in {287, 306, 798, 256, 521, 307} -> <<"A07">>
      [] cwe \in {494, 502, 829} -> <<"A08">>
      [] cwe \in {778, 117} -> <<"A09">>
      [] cwe = 918 -> <<"A10">>
      [] OTHER -> <<>>

\* the keys of wascToOwasp ('1'..'15' and '19'..'48') and its entries
WascKeys == (1..15) \cup (19..48)

wascToOwasp(wasc) ==
    CASE wasc = 2 -> <<"A07">>
      [] wasc = 19 -> <<"A05">>
      [] wasc = 48 -> <<"A10">>
      [] wasc \in WascKeys \ {2, 19, 48} -> <<"A03">>
      [] OTHER -> <<>>

\* [...new Set(tags)]: the first occurrence of every tag, in order
RECURSIVE Dedup(_)
Dedup(tags) ==
    IF tags = <<>> THEN <<>>
    ELSE <<Head(tags)>> \o Dedup(SelectSeq(Tail(tags), LAMBDA x : x # Head(tags)))

\* the else-if chain over the lower-cased alert name
NameTags(name) ==
    IF Includes(name, "sql injection") \/ Includes(name, "sqli") THEN <<"A03">>
    ELSE IF Includes(name, "xss") \/ Includes(name, "cross-site scripting")
    THEN <<"A03">>
    ELSE IF Includes(name, "csrf") \/ Includes(name, "cross-site request forgery")
    THEN <<"A01">>
    ELSE IF Includes(name, "authentication") \/ Includes(name, "auth")
    THEN <<"A07">>
    ELSE IF Includes(name, "authorization") \/ Includes(name, "access control")
    THEN <<"A01">>
    ELSE IF Includes(name, "ssrf") \/ Includes(name, "server-side request forgery")
    THEN <<"A10">>
    ELSE IF Includes(name, "injection") THEN <<"A03">>
    ELSE IF Includes(name, "misconfiguration") \/ Includes(name, "configuration")
    THEN <<"A05">>
    ELSE IF \/ Includes(name, "crypto") \/ Includes(name, "encryption")
            \/ Includes(name, "ssl") \/ Includes(name, "tls")
    THEN <<"A02">>
    ELSE <<>>

\* cweId and wascId are numbers, 0 when the alert has none (a falsy value);
\* alertName is "" when the alert has none
mapToOwaspTop10(cweId, wascId, alertName) ==
    LET cweTags == IF cweId # 0 /\ cweId \in CweKeys THEN cweToOwasp(cweId) ELSE <<>>
        wascTags == IF wascId # 0 /\ wascId \in WascKeys THEN wascToOwasp(wascId)
                    ELSE <<>>
        tags == cweTags \o wascTags
    IN Dedup(IF tags = <<>> THEN NameTags(ToLower(Chars(alertName))) ELSE tags)

\* executeSemgrepScan: the tags of a result, from its check_id and message
SemgrepOwaspTags(check_id, message) ==
    LET checkId == ToLower(Chars(check_id))
        msg == ToLower(Chars(message))
    IN IF \/ Includes(checkId, "sql") \/ Includes(checkId, "injection")
          \/ Includes(msg, "sql injection")
       THEN <<"A03">>
       ELSE IF \/ Includes(checkId, "xss") \/ Includes(msg, "xss")
               \/ Includes(msg, "cross-site scripting")
       THEN <<"A03">>
       ELSE IF Includes(checkId, "auth") \/ Includes(msg, "authentication")
       THEN <<"A07">>
       ELSE IF \/ Includes(checkId, "crypto") \/ Includes(msg, "encryption")
               \/ Includes(msg, "cipher")
       THEN <<"A02">>
       ELSE IF Includes(checkId, "log") \/ Includes(msg, "logging") THEN <<"A09">>
       ELSE <<"A03">>

-----------------------------------------------------------------------------
(* Findings *)

transformZapAlert(zapAlert, targetId, t, r) ==
    [id |-> <<"zap-finding", t, r>>, title |-> zapAlert.name,
     severity |-> mapZapRiskToSeverity(zapAlert.risk), status |-> "open",
     tool |-> "ZAP", location |-> zapAlert.url, targetId |-> targetId]

OsvFinding(vuln, index, pkg, targetId, t) ==
    [id |-> <<"osv-finding", t, index>>, title |-> vuln.summary,
     severity |-> mapOSVSeverityToSeverity(vuln.severity), status |-> "open",
     tool |-> "OSV", location |-> pkg.value, targetId |-> targetId]

TrivyFinding(vuln, index, container, targetId, t) ==
    [id |-> <<"trivy-finding", t, index>>, title |-> "Container Vulnerability",
     severity |-> mapTrivySeverityToSeverity(vuln.severity), status |-> "open",
     tool |-> "Trivy", location |-> container.value, targetId |-> targetId]

SemgrepFinding(result, index, targetId, t) ==
    [id |-> <<"semgrep-finding", t, index>>, title |-> result.check_id,
     severity |-> mapSemgrepSeverityToSeverity(result.severity), status |-> "open",
     tool |-> "Semgrep", location |-> result.path, targetId |-> targetId]

GitHubFinding(advisory, index, repo, targetId, t) ==
    [id |-> <<"github-finding", t, index>>, title |-> "GitHub Security Advisory",
     severity |-> mapGitHubSeverityToSeverity(advisory.severity), status |-> "open",
     tool |-> "GitHub", location |-> repo, targetId |-> targetId]

-----------------------------------------------------------------------------
(* Tool adapters.  A task is one executeTool call: the promise of one tool *)
(* of one job.  pc is the await it is suspended at, or fulfilled/rejected. *)

NetworkPcs == {"spider", "status", "spiderResults", "alerts", "query", "scanImage",
               "semgrepScan", "semgrepResults", "advisories"}
TimerPcs == {"pollSleep", "settle"}
SettledPcs == {"fulfilled", "rejected"}

BlankTask(tool, cred) ==
    [tool |-> tool, pc |-> "new", sent |-> 0, start |-> 0, wake |-> 0, idx |-> 0,
     acc |-> <<>>, reason |-> "", fault |-> FALSE, cred |-> cred, url |-> "",
     progress |-> 0]

\* await of a call to an external service, issued at time t
Request(task, pc, t) == [task EXCEPT !.pc = pc, !.sent = t]
\* await new Promise(resolve => setTimeout(resolve, ms))
Sleep(task, pc, t, ms) == [task EXCEPT !.pc = pc, !.wake = t + ms]
Fulfil(task, findings) == [task EXCEPT !.pc = "fulfilled", !.acc = findings]
Reject(task, reason) ==
    [task EXCEPT !.pc = "rejected", !.reason = reason, !.acc = <<>>, !.fault = TRUE]

WithType(identifiers, types) == SelectSeq(identifiers, LAMBDA id : id.type \in types)

PackageTypes == {"npm", "pypi", "maven"}
ContainerTypes == {"container", "image"}

\* the catch of executeZapScan: the error is logged and [] is returned
ZapCatch(task) == Fulfil([task EXCEPT !.fault = TRUE], <<>>)

\* a wait without the ceiling on the elapsed time
waitForScanCompletionNoCeiling(task, t) == Request(task, "status", t)

\* the head of the while loop of waitForScanCompletion, and the throw after it
waitForScanCompletion(task, t) ==
    IF t - task.start < SpiderMaxWaitMs
    THEN Request(task, "status", t)
    ELSE ZapCatch(task)

executeZapScan(task, target, t) ==
    LET urls == WithType(target.identifiers, {"url"})
    IN IF urls = <<>> THEN Fulfil(task, <<>>)
       ELSE Request([task EXCEPT !.url = urls[1].value], "spider", t)

ZapFindings(n, target, policy, t, r) ==
    LET alerts == [i \in 1..n |-> ZapAlert(i)]
        filteredAlerts == FilterAlerts(alerts, policy.exclusions)
    IN [i \in 1..Len(filteredAlerts) |->
            transformZapAlert(filteredAlerts[i], target.id, t, r + i)]

\* parseInt of a status that is no numeral; every comparison with it is false
NaN == -1

\* const progress = parseInt(status.status), when the status call succeeded
Polled(task, out) == IF out.ok THEN [task EXCEPT !.progress = out.n] ELSE task

\* a web scan whose wait ends when a status poll fails
ZapOnResponseFailEnds(task, target, policy, out, t, r) ==
    CASE task.pc = "spider" ->
            IF out.ok THEN waitForScanCompletion([task EXCEPT !.start = t], t)
            ELSE ZapCatch(task)
      [] task.pc = "status" ->
            IF out.ok /\ out.n # NaN /\ out.n >= 100
            THEN Request(Polled(task, out), "spiderResults", t)
            ELSE IF out.ok THEN Sleep(Polled(task, out), "pollSleep", t, PollIntervalMs)
            ELSE ZapCatch(task)
      [] task.pc = "spiderResults" ->
            IF out.ok THEN Sleep(task, "settle", t, PassiveSettleMs)
            ELSE ZapCatch(task)
      [] task.pc = "alerts" ->
            IF out.ok THEN Fulfil(task, ZapFindings(out.n, target, policy, t, r))
            ELSE ZapCatch(task)

ZapOnResponse(task, target, policy, out, t, r) ==
    CASE task.pc = "spider" ->
            IF out.ok THEN waitForScanCompletion([task EXCEPT !.start = t], t)
            ELSE ZapCatch(task)
      [] task.pc = "status" ->
            IF out.ok /\ out.n # NaN /\ out.n >= 100
            THEN Request(Polled(task, out), "spiderResults", t)
            ELSE Sleep(Polled(task, out), "pollSleep", t, PollIntervalMs)
      [] task.pc = "spiderResults" ->
            IF out.ok THEN Sleep(task, "settle", t, PassiveSettleMs)
            ELSE ZapCatch(task)
      [] task.pc = "alerts" ->
            IF out.ok THEN Fulfil(task, ZapFindings(out.n, target, policy, t, r))
            ELSE ZapCatch(task)

\* a web scan that goes on to the active scan after the settle time
ZapOnTimerActive(task, t) ==
    IF task.pc = "pollSleep" THEN waitForScanCompletion(task, t)
    ELSE Request(task, "activeScan", t)

ZapOnTimer(task, t) ==
    IF task.pc = "pollSleep" THEN waitForScanCompletion(task, t)
    ELSE Request(task, "alerts", t)

executeOSVScan(task, target, t) ==
    IF WithType(target.identifiers, PackageTypes) = <<>> THEN Fulfil(task, <<>>)
    ELSE Request([task EXCEPT !.idx = 1], "query", t)

\* one turn of the for loop over the packages: the answer for package idx
OsvOnResponse(task, target, out, t) ==
    LET pkgs == WithType(target.identifiers, PackageTypes)
        found == [i \in 1..out.n |->
                     OsvFinding(OsvVuln(i), i - 1, pkgs[task.idx], target.id, t)]
        next == [task EXCEPT !.acc = IF out.ok THEN @ \o found ELSE @,
                             !.fault = @ \/ ~out.ok]
    IN IF task.idx < Len(pkgs)
       THEN Request([next EXCEPT !.idx = @ + 1], "query", t)
       ELSE Fulfil(next, next.acc)

executeTrivyScan(task, target, t) ==
    IF WithType(target.identifiers, ContainerTypes) = <<>> THEN Fulfil(task, <<>>)
    ELSE Request([task EXCEPT !.idx = 1], "scanImage", t)

TrivyOnResponse(task, target, out, t) ==
    LET containers == WithType(target.identifiers, ContainerTypes)
        found == [i \in 1..out.n |->
                     TrivyFinding(TrivyVuln(i), i - 1, containers[task.idx],
                                  target.id, t)]
        next == [task EXCEPT !.acc = IF out.ok THEN @ \o found ELSE @,
                             !.fault = @ \/ ~out.ok]
    IN IF task.idx < Len(containers)
       THEN Request([next EXCEPT !.idx = @ + 1], "scanImage", t)
       ELSE Fulfil(next, next.acc)

\* a static-analysis adapter that raises when its API key is missing
executeSemgrepScanNeedsKey(task, target, t) ==
    IF ~task.cred THEN Reject(task, "Semgrep API key not configured")
    ELSE IF WithType(target.identifiers, {"repository"}) = <<>>
         THEN Reject(task, "No repository identifier found for Semgrep scan")
         ELSE Request(task, "semgrepScan", t)

executeSemgrepScan(task, target, t) ==
    IF ~task.cred THEN Fulfil(task, <<>>)
    ELSE IF WithType(target.identifiers, {"repository"}) = <<>>
         THEN Reject(task, "No repository identifier found for Semgrep scan")
         ELSE Request(task, "semgrepScan", t)

SemgrepOnResponse(task, target, out, t) ==
    IF ~out.ok THEN Reject(task, "Semgrep request failed")
    ELSE IF task.pc = "semgrepScan" THEN Request(task, "semgrepResults", t)
    ELSE Fulfil(task, [i \in 1..out.n |->
                          SemgrepFinding(SemgrepResult(i), i - 1, target.id, t)])

\* repoIdentifier.value.split('/') on the repository values that occur
SplitSlash(value) ==
    IF value = "owner/repo" THEN <<"owner", "repo">> ELSE <<value>>

executeGitHubScan(task, target, t) ==
    LET repos == WithType(target.identifiers, {"repository"})
    IN IF ~task.cred THEN Fulfil(task, <<>>)
       ELSE IF repos = <<>>
            THEN Reject(task, "No repository identifier found for GitHub scan")
            ELSE IF Len(SplitSlash(repos[1].value)) < 2
                 THEN Reject(task, "Invalid repository format")
                 ELSE Request(task, "advisories", t)

GitHubOnResponse(task, target, out, t) ==
    LET repos == WithType(target.identifiers, {"repository"})
    IN IF ~out.ok THEN Reject(task, "GitHub request failed")
       ELSE Fulfil(task, [i \in 1..out.n |->
                             GitHubFinding(GitHubAdvisory(i), i - 1, repos[1].value,
                                           target.id, t)])

\* executeTool up to its first await: the task as the launch leaves it
executeTool(tool, target, policy, t, cred) ==
    LET kind == ToLowerCase(tool)
        task == BlankTask(tool, cred)
    IN CASE kind = "zap" -> executeZapScan(task, target, t)
         [] kind = "osv" -> executeOSVScan(task, target, t)
         [] kind = "semgrep" -> executeSemgrepScan(task, target, t)
         [] kind = "trivy" -> executeTrivyScan(task, target, t)
         [] kind = "github" -> executeGitHubScan(task, target, t)
         [] OTHER -> Reject(task, "Unknown tool")

\* the continuation of a task when the answer out to its pending call arrives
OnResponse(task, target, policy, out, t, r) ==
    LET kind == ToLowerCase(task.tool)
    IN CASE kind = "zap" -> ZapOnResponse(task, target, policy, out, t, r)
         [] kind = "osv" -> OsvOnResponse(task, target, out, t)
         [] kind = "semgrep" -> SemgrepOnResponse(task, target, out, t)
         [] kind = "trivy" -> TrivyOnResponse(task, target, out, t)
         [] OTHER -> GitHubOnResponse(task, target, out, t)

\* the answers an external service can give to the call a task waits for:
\* a failure, or a success carrying a progress value or n raw records
Failure == [ok |-> FALSE, n |-> 0]

Outcomes(pc) ==
    {Failure} \cup
    (IF pc = "status" THEN {[ok |-> TRUE, n |-> p] : p \in {0, 100, NaN}}
     ELSE IF pc \in {"spider", "semgrepScan", "spiderResults"}
          THEN {[ok |-> TRUE, n |-> 0]}
          ELSE {[ok |-> TRUE, n |-> k] : k \in 0..MaxRaw})

\* Math.random() calls made by a step that leaves the task as newTask
RandomDraws(task, newTask) ==
    IF ToLowerCase(task.tool) = "zap" /\ newTask.pc = "fulfilled"
    THEN Len(newTask.acc) ELSE 0

-----------------------------------------------------------------------------
(* ScanExecutionService.executeScan *)

AllSettled(tasks) == \A i \in 1..Len(tasks) : tasks[i].pc \in SettledPcs

\* toolResults.forEach: the findings of the fulfilled tools, in list order
RECURSIVE MergeFindings(_)
MergeFindings(tasks) ==
    IF tasks = <<>> THEN <<>>
    ELSE (IF Head(tasks).pc = "fulfilled" THEN Head(tasks).acc ELSE <<>>)
         \o MergeFindings(Tail(tasks))

\* toolResults.forEach: one error string per rejected tool, in list order
RECURSIVE CollectErrors(_)
CollectErrors(tasks) ==
    IF tasks = <<>> THEN <<>>
    ELSE (IF Head(tasks).pc = "rejected"
          THEN <<[tool |-> Head(tasks).tool, reason |-> Head(tasks).reason]>>
          ELSE <<>>)
         \o CollectErrors(Tail(tasks))

\* an executeScan that gives the whole job up when one tool raises
executeScanResultFailFast(call, tasks, t) ==
    IF \E i \in 1..Len(tasks) : tasks[i].pc = "rejected"
    THEN [jobId |-> call.jobId, status |-> "failed", startedAt |-> call.startedAt,
          finishedAt |-> t, tools |-> call.policy.tools, findings |-> <<>>,
          summary |-> calculateSummary(<<>>), errors |-> <<CollectErrors(tasks)[1]>>]
    ELSE [jobId |-> call.jobId, status |-> "completed", startedAt |-> call.startedAt,
          finishedAt |-> t, tools |-> call.policy.tools,
          findings |-> MergeFindings(tasks),
          summary |-> calculateSummary(MergeFindings(tasks)), errors |-> <<>>]

\* the result executeScan returns once Promise.allSettled has resolved
executeScanResult(call, tasks, t) ==
    [jobId |-> call.jobId, status |-> "completed", startedAt |-> call.startedAt,
     finishedAt |-> t, tools |-> call.policy.tools,
     findings |-> MergeFindings(tasks),
     summary |-> calculateSummary(MergeFindings(tasks)),
     errors |-> CollectErrors(tasks)]

\* a launch that starts a tool only when the tools before it have settled
RECURSIVE LaunchToolsInTurn(_, _, _, _)
LaunchToolsInTurn(target, policy, t, env) ==
    IF policy.tools = <<>> THEN <<>>
    ELSE LET first == executeTool(Head(policy.tools), target, policy, t, TRUE)
             rest == [policy EXCEPT !.tools = Tail(policy.tools)]
         IN <<first>> \o
            (IF first.pc \in {"fulfilled", "rejected"}
             THEN LaunchToolsInTurn(target, rest, t, env)
             ELSE [i \in 1..Len(rest.tools) |-> BlankTask(rest.tools[i], TRUE)])

\* policy.tools.map(tool => this.executeTool(tool, target, policy))
LaunchTools(target, policy, t, env) ==
    [i \in 1..Len(policy.tools) |->
        executeTool(policy.tools[i], target, policy, t,
                    IF ToLowerCase(policy.tools[i]) = "semgrep" THEN env.semgrep
                    ELSE IF ToLowerCase(policy.tools[i]) = "github" THEN env.github
                    ELSE TRUE)]

-----------------------------------------------------------------------------
(* Job store and findings store *)

\* Map.prototype.set
MapSet(map, key, value) ==
    [k \in DOMAIN map \cup {key} |-> IF k = key THEN value ELSE map[k]]

EmptyMap == [k \in {} |-> Undefined]

\* mockFindings.findIndex(f => f.id === id); 0 stands for -1
FindIndex(findings, id) ==
    LET hits == {i \in 1..Len(findings) : findings[i].id = id}
    IN IF hits = {} THEN 0 ELSE CHOOSE i \in hits : \A j \in hits : i <= j

RECURSIVE addFindingsFromScan(_, _)
addFindingsFromScan(store, findings) ==
    IF findings = <<>> THEN store
    ELSE LET finding == Head(findings)
             existingIndex == FindIndex(store, finding.id)
         IN addFindingsFromScan(
                IF existingIndex = 0 THEN Append(store, finding)
                ELSE [store EXCEPT ![existingIndex] = finding],
                Tail(findings))

\* a job id made of the clock alone
NewJobIdClockOnly(t, r) == <<"scan", t, 0>>

\* scans.ts: jobId = `scan_${Date.now()}_${Math.random()...}`
NewJobId(t, r) == <<"scan", t, r>>

\* a gate that is content with either flag
ConsentGivenEither(consentAccepted, ownershipAttested) ==
    consentAccepted = "true" \/ ownershipAttested = "true"

\* scans.ts: the consent and ownership gate
ConsentGiven(consentAccepted, ownershipAttested) ==
    consentAccepted = "true" /\ ownershipAttested = "true"

\* scans.ts: parsedIdentifiers from scopeSnapshot.identifiers
ParseIdentifiers(scopeSnapshot) ==
    CASE scopeSnapshot.kind = "array" -> scopeSnapshot.identifiers
      [] scopeSnapshot.kind = "json" -> scopeSnapshot.identifiers
      [] scopeSnapshot.kind = "text" ->
            <<[type |-> "url", value |-> scopeSnapshot.text]>>
      [] OTHER -> DefaultTestIdentifiers

\* scans.ts: the record stored when the scan is accepted
InitialScanData(jobId, policy, req, t) ==
    [jobId |-> jobId, status |-> "running", tools |-> policy.allowedTools,
     startedAt |-> t, estimatedDuration |-> EstimatedDuration,
     targetId |-> req.targetId, policyId |-> req.policyId]

\* scans.ts: scanPolicy; configurations carries no exclusions
ScanPolicyOf(policy) ==
    [id |-> policy.id, tools |-> policy.allowedTools, exclusions |-> <<>>]

\* a background execution that stores the status ahead of the findings
BackgroundRecordStatusFirst(call, result) ==
    [jobId |-> result.jobId, status |-> result.status, startedAt |-> result.startedAt]

\* executeScanInBackground after the await: what it stores for the job
BackgroundRecord(call, result) == result

\* a background execution that, after it stored a result with findings,
\* stores the failed record of its catch over it
StoredJobsThenFailed(call, result) ==
    MapSet(scanResults, call.jobId,
           IF Len(result.findings) > 0
           THEN [jobId |-> call.jobId, status |-> "failed",
                 startedAt |-> scanResults[call.jobId].startedAt, finishedAt |-> now,
                 tools |-> call.policy.tools, findings |-> <<>>,
                 summary |-> calculateSummary(<<>>),
                 errors |-> <<[tool |-> "", reason |-> "Unknown error"]>>]
           ELSE BackgroundRecord(call, result))

\* the state of the stores after executeScanInBackground resumed with result
StoredJobs(call, result) == MapSet(scanResults, call.jobId, BackgroundRecord(call, result))

StoredFindings(result) ==
    IF Len(result.findings) > 0 THEN addFindingsFromScan(mockFindings, result.findings)
    ELSE mockFindings

\* The microtasks that follow a turn which left call k as call: when all its
\* tasks have settled, executeScan returns and, for a scan started by the
\* route, executeScanInBackground stores the result.
Resume(k, call) ==
    LET result == executeScanResult(call, call.tasks, now)
        done == AllSettled(call.tasks) /\ call.result = Undefined
        after == IF done THEN [call EXCEPT !.result = result] ELSE call
    IN /\ calls' = IF k > Len(calls) THEN Append(calls, after)
                   ELSE [calls EXCEPT ![k] = after]
       /\ scanResults' = IF done /\ call.bg THEN StoredJobs(call, result)
                         ELSE scanResults
       /\ mockFindings' = IF done /\ call.bg THEN StoredFindings(result)
                          ELSE mockFindings

-----------------------------------------------------------------------------
(* Requests *)

TargetIds == {"t1", "t2"}
FlagValues == {"true", "false", "undefined"}

NoScope == [kind |-> "none", identifiers |-> <<>>, text |-> ""]
PackageScope == [kind |-> "array", identifiers |-> <<IdNpmA, IdNpmB>>, text |-> ""]
MixedScope == [kind |-> "array", identifiers |-> <<IdUrl, IdNpmA>>, text |-> ""]

ScanRequest(targetId, policyId, consentAccepted, ownershipAttested, scopeSnapshot) ==
    [targetId |-> targetId, policyId |-> policyId, consentAccepted |-> consentAccepted,
     ownershipAttested |-> ownershipAttested, scopeSnapshot |-> scopeSnapshot]

\* the submissions of the concurrent specification
ScanRequests ==
    { ScanRequest("t1", "policy-default-safe", "true", "true", NoScope),
      ScanRequest("t1", "policy-dependency-only", "true", "true", PackageScope),
      ScanRequest("t2", "policy-default-safe", "true", "true", PackageScope),
      ScanRequest("t2", "policy-dependency-only", "true", "true", NoScope),
      ScanRequest("t1", "policy-missing", "true", "true", NoScope),
      ScanRequest("t1", "policy-default-safe", "true", "false", NoScope),
      ScanRequest("t2", "policy-dependency-only", "undefined", "true", PackageScope) }

\* every combination of the flags, with every body
GateRequests ==
    [targetId : TargetIds,
     policyId : {"policy-default-safe", "policy-dependency-only", "policy-missing"},
     consentAccepted : FlagValues, ownershipAttested : FlagValues,
     scopeSnapshot : {NoScope, PackageScope}]

NoEnv == [semgrep |-> FALSE, github |-> FALSE]

UnknownJobId == <<"scan", 0, 0>>

Response(code, arg, data) == [code |-> code, arg |-> arg, data |-> data]

\* targets.ts: the target store; the handlers of the scan route neither read
\* nor write it.  It holds the target t1 and no other.
mockTargets == <<[id |-> "t1", name |-> "Target t1"]>>

\* policies.ts: the exclusion patterns the policy store holds for a policy,
\* after PUT /policies/policy-default-safe {exclusions: ["*/admin/*"]}; the
\* scan route reads its own mockPolicies and never this store.
DeclaredExclusions(policyId) ==
    IF policyId = "policy-default-safe" THEN <<"*/admin/*">> ELSE <<>>

NoProbe == [fn |-> "none", arg |-> [none |-> TRUE], ret |-> <<>>]

-----------------------------------------------------------------------------
(* Actions *)

Init ==
    /\ now = 0
    /\ rnd = 0
    /\ scanResults = EmptyMap
    /\ mockFindings = <<>>
    /\ calls = <<>>
    /\ handler = 0
    /\ lastResp = Response(0, Undefined, Undefined)
    /\ probe = NoProbe
    /\ policiesMockPolicies = mockPolicies

\* POST /scans, lines 63-148: validation, the job record, the launch of the
\* background execution (which runs every executeTool up to its first await).
\* At most cap submissions are accepted, none after tick latest.
PostScan(req, cap, latest) ==
    /\ handler = 0
    /\ Len(calls) < cap
    /\ now <= latest * TickMs
    /\ IF ~ConsentGiven(req.consentAccepted, req.ownershipAttested)
       THEN /\ lastResp' = Response(400, req, Undefined)
            /\ UNCHANGED <<policiesMockPolicies, probe, now, rnd, scanResults, mockFindings, calls, handler>>
       ELSE IF FindPolicy(req.policyId) = Undefined
       THEN /\ lastResp' = Response(404, req, Undefined)
            /\ UNCHANGED <<policiesMockPolicies, probe, now, rnd, scanResults, mockFindings, calls, handler>>
       ELSE LET jobId == NewJobId(now, rnd + 1)
                policy == FindPolicy(req.policyId)
                target == [id |-> req.targetId,
                           identifiers |-> ParseIdentifiers(req.scopeSnapshot)]
                scanPolicy == ScanPolicyOf(policy)
            IN /\ rnd' = rnd + 1
               /\ scanResults' = MapSet(scanResults, jobId,
                                        InitialScanData(jobId, policy, req, now))
               /\ calls' = Append(calls,
                      [jobId |-> jobId, req |-> req, target |-> target,
                       policy |-> scanPolicy, startedAt |-> now, bg |-> TRUE,
                       responded |-> FALSE, result |-> Undefined,
                       tasks |-> LaunchTools(target, scanPolicy, now, NoEnv)])
               /\ handler' = Len(calls) + 1
               /\ UNCHANGED <<policiesMockPolicies, probe, now, mockFindings, lastResp>>

\* POST /scans, line 150: res.json, and the microtasks after the handler
PostRespond ==
    /\ handler # 0
    /\ lastResp' = Response(200, calls[handler].req, scanResults[calls[handler].jobId])
    /\ handler' = 0
    /\ Resume(handler, [calls[handler] EXCEPT !.responded = TRUE])
    /\ UNCHANGED <<policiesMockPolicies, probe, now, rnd>>

\* GET /scans/:jobId
GetScanResponse(jobId) ==
    IF jobId \in DOMAIN scanResults
    THEN Response(200, jobId, scanResults[jobId])
    ELSE Response(404, jobId, Undefined)

GetScan(jobId) ==
    /\ handler = 0
    /\ GetScanResponse(jobId).code \in {200, 404}
    /\ UNCHANGED vars

\* Math.min(100, (Date.now() - startedAt) / (estimatedDuration * 1000) * 100),
\* kept as the fraction num / den
ProgressOf(scanData) ==
    LET num == (now - scanData.startedAt) * 100
        den == scanData.estimatedDuration * 1000
    IN IF num >= 100 * den THEN [num |-> 100, den |-> 1] ELSE [num |-> num, den |-> den]

\* GET /scans/:jobId/progress (the mock counters urlsDiscovered and
\* rulesCompleted of a running scan are random numbers and are left out)
GetProgressResponse(jobId) ==
    IF jobId \notin DOMAIN scanResults
    THEN Response(404, jobId, Undefined)
    ELSE IF scanResults[jobId].status # "running"
    THEN Response(200, jobId,
             [progress |-> [num |-> IF scanResults[jobId].status = "completed"
                                    THEN 100 ELSE 0, den |-> 1],
              phase |-> scanResults[jobId].status])
    ELSE Response(200, jobId,
             [progress |-> ProgressOf(scanResults[jobId]), phase |-> "active"])

GetProgress(jobId) ==
    /\ handler = 0
    /\ GetProgressResponse(jobId).code \in {200, 404}
    /\ UNCHANGED vars

\* POST /scans/:jobId/cancel
CancelResponse(jobId) == Response(200, [jobId |-> jobId], [cancelled |-> TRUE])

\* observed: the answer is kept in lastResp
CancelScan(jobId, observed) ==
    /\ handler = 0
    /\ lastResp' = IF observed THEN CancelResponse(jobId) ELSE lastResp
    /\ UNCHANGED <<policiesMockPolicies, probe, now, rnd, scanResults, mockFindings, calls, handler>>

\* GET /findings?targetId=
GetFindingsResponse(targetId) ==
    Response(200, targetId, SelectSeq(mockFindings, LAMBDA f : f.targetId = targetId))

GetFindings(targetId) ==
    /\ handler = 0
    /\ GetFindingsResponse(targetId).code = 200
    /\ UNCHANGED vars

\* the answer out of an external service reaches task i of call k
ToolResponse(k, i, out) ==
    /\ handler = 0
    /\ k \in 1..Len(calls) /\ i \in 1..Len(calls[k].tasks)
    /\ calls[k].tasks[i].pc \in NetworkPcs
    /\ out \in Outcomes(calls[k].tasks[i].pc)
    /\ LET task == calls[k].tasks[i]
           newTask == OnResponse(task, calls[k].target, calls[k].policy, out, now, rnd)
       IN /\ rnd' = rnd + RandomDraws(task, newTask)
          /\ Resume(k, [calls[k] EXCEPT !.tasks[i] = newTask])
    /\ UNCHANGED <<policiesMockPolicies, probe, now, handler, lastResp>>

\* the setTimeout of task i of call k fires
TimerFire(k, i) ==
    /\ handler = 0
    /\ k \in 1..Len(calls) /\ i \in 1..Len(calls[k].tasks)
    /\ calls[k].tasks[i].pc \in TimerPcs
    /\ now >= calls[k].tasks[i].wake
    /\ Resume(k, [calls[k] EXCEPT !.tasks[i] = ZapOnTimer(calls[k].tasks[i], now)])
    /\ UNCHANGED <<policiesMockPolicies, probe, now, rnd, handler, lastResp>>

\* The clock advances, up to the horizon.  A timer fires in the tick it is
\* due, and an external call is answered within MaxLatency ticks.
Tick(horizon) ==
    /\ handler = 0
    /\ now < horizon * TickMs
    /\ \A k \in 1..Len(calls) : \A i \in 1..Len(calls[k].tasks) :
          LET task == calls[k].tasks[i]
          IN /\ task.pc \in TimerPcs => now < task.wake
             /\ task.pc \in NetworkPcs => now - task.sent < MaxLatency * TickMs
    /\ now' = now + TickMs
    /\ UNCHANGED <<policiesMockPolicies, probe, rnd, scanResults, mockFindings, calls, handler, lastResp>>

JobIds == DOMAIN scanResults \cup {UnknownJobId}
AllOutcomes == UNION {Outcomes(pc) : pc \in NetworkPcs}
TaskIndexes == 1..MaxDirectTools

Reads ==
    \/ \E jobId \in JobIds : GetScan(jobId)
    \/ \E jobId \in JobIds : GetProgress(jobId)
    \/ \E jobId \in JobIds : CancelScan(jobId, FALSE)
    \/ \E targetId \in TargetIds : GetFindings(targetId)

Execution ==
    \/ \E k \in 1..MaxJobs, i \in TaskIndexes : \E out \in AllOutcomes :
          ToolResponse(k, i, out)
    \/ \E k \in 1..MaxJobs, i \in TaskIndexes : TimerFire(k, i)

Next ==
    \/ \E req \in ScanRequests : PostScan(req, MaxJobs, MaxTicks)
    \/ PostRespond
    \/ Reads
    \/ Execution
    \/ Tick(MaxTicks)

\* the whole service, MaxJobs concurrent submissions, a short horizon
Spec == Init /\ [][Next]_vars

-----------------------------------------------------------------------------
(* The consent gate on its own: one submission, every request *)

NextGate ==
    \/ \E req \in GateRequests : PostScan(req, 1, MaxTicks)
    \/ PostRespond
    \/ Reads
    \/ Execution
    \/ Tick(MaxTicks)

GateSpec == Init /\ [][NextGate]_vars

-----------------------------------------------------------------------------
(* One job from submission to its end, with the clock running long enough  *)
(* for the spider wait to reach its ceiling.                               *)

\* ticks a job can take: the spider call, the wait up to its ceiling with the
\* last poll and sleep, the spider results, the settle time, the alerts
JobBudgetTicks ==
    (SpiderMaxWaitMs \div TickMs) + (PassiveSettleMs \div TickMs) + 4 * MaxLatency + 1

NextLive ==
    \/ \E req \in ScanRequests : PostScan(req, 1, 0)
    \/ PostRespond
    \/ Reads
    \/ Execution
    \/ Tick(JobBudgetTicks)

\* every pending external call is answered, every due timer fires, the
\* handler finishes its turn and the clock advances
Fairness ==
    /\ WF_vars(PostRespond)
    /\ WF_vars(Tick(JobBudgetTicks))
    /\ \A k \in 1..MaxJobs, i \in TaskIndexes :
          /\ WF_vars(\E out \in AllOutcomes : ToolResponse(k, i, out))
          /\ WF_vars(TimerFire(k, i))

LiveSpec == Init /\ [][NextLive]_vars /\ Fairness

-----------------------------------------------------------------------------
(* ScanExecutionService.executeScan called directly, with any tool list *)

DirectTools == {"ZAP", "OSV", "Semgrep", "Trivy", "GitHub", "Nuclei"}
DirectToolLists == UNION {[1..n -> DirectTools] : n \in 0..MaxDirectTools}
DirectIdentifierLists ==
    { <<>>, <<IdUrl, IdNpmA, IdNpmB, IdNpmC>>, <<IdImageA, IdImageB, IdRepo>>,
      <<IdBadRepo>> }
DirectEnvs == [semgrep : BOOLEAN, github : BOOLEAN]
DirectExclusions == {<<>>, <<"*/admin/*">>}

DirectExecute(identifiers, tools, exclusions, env) ==
    /\ calls = <<>>
    /\ LET target == [id |-> "t1", identifiers |-> identifiers]
           policy == [id |-> "direct", tools |-> tools, exclusions |-> exclusions]
       IN Resume(1, [jobId |-> "direct", req |-> Undefined, target |-> target,
                     policy |-> policy, startedAt |-> now, bg |-> FALSE,
                     responded |-> FALSE, result |-> Undefined,
                     tasks |-> LaunchTools(target, policy, now, env)])
    /\ UNCHANGED <<policiesMockPolicies, probe, now, rnd, handler, lastResp>>

NextExec ==
    \/ \E identifiers \in DirectIdentifierLists, tools \in DirectToolLists,
          exclusions \in DirectExclusions, env \in DirectEnvs :
          DirectExecute(identifiers, tools, exclusions, env)
    \/ Execution
    \/ Tick(MaxTicks)

ExecSpec == Init /\ [][NextExec]_vars

-----------------------------------------------------------------------------
(* The exclusion filter and the tag mappings applied directly *)

AlertUrls ==
    {"http://x/api/admin/y", "http://x/api/public/y", "http://app.test/api/admin/y",
     "http://app.test/api/public/y", "http://app.test/", "http://app.test/x"}
Patterns == {"*/admin/*", "/api/", "x.api", "*"}
AlertLists == UNION {[1..n -> [url : AlertUrls]] : n \in 0..MaxAlerts}
PatternLists == UNION {[1..n -> Patterns] : n \in 0..MaxPatterns}

CweIds == {0, 89, 284, 306, 918, 999}
WascIds == {0, 2, 8, 16, 19, 48}
AlertNames ==
    {"", "SQL Injection", "Reflected XSS", "CSRF Token Missing", "SSRF",
     "Weak Authentication", "Missing Authorization", "Broken Access Control",
     "Security Misconfiguration", "Weak TLS", "Command Injection",
     "Author Disclosure", "Cookie Without Flag"}
CheckIds == {"js.sql", "js.log", "js.misc", "js.auth-bypass"}
Messages == {"", "SQL Injection found", "unused variable"}

ApplyFilter(alerts, exclusions) ==
    /\ probe = NoProbe
    /\ probe' = [fn |-> "filter",
                 arg |-> [alerts |-> alerts, exclusions |-> exclusions],
                 ret |-> FilterAlerts(alerts, exclusions)]
    /\ UNCHANGED <<now, rnd, scanResults, mockFindings, calls, handler, lastResp,
                 policiesMockPolicies>>

ApplyTags(cweId, wascId, alertName) ==
    /\ probe = NoProbe
    /\ probe' = [fn |-> "tags",
                 arg |-> [cweId |-> cweId, wascId |-> wascId, alertName |-> alertName],
                 ret |-> mapToOwaspTop10(cweId, wascId, alertName)]
    /\ UNCHANGED <<now, rnd, scanResults, mockFindings, calls, handler, lastResp,
                 policiesMockPolicies>>

ApplySemgrepTags(check_id, message) ==
    /\ probe = NoProbe
    /\ probe' = [fn |-> "semgrepTags",
                 arg |-> [check_id |-> check_id, message |-> message],
                 ret |-> SemgrepOwaspTags(check_id, message)]
    /\ UNCHANGED <<now, rnd, scanResults, mockFindings, calls, handler, lastResp,
                 policiesMockPolicies>>

\* raw severities: each tool's own words, words of other tools, a missing
\* value (read as the key 'undefined'), and names of Object.prototype members
StringTools == {"ZAP", "Semgrep", "Trivy", "GitHub"}
RawSeverities ==
    {"High", "Medium", "Low", "Informational", "ERROR", "WARNING", "INFO",
     "CRITICAL", "HIGH", "MEDIUM", "LOW", "UNKNOWN", "critical", "high", "moderate",
     "low", "Severe", "", "undefined", "constructor", "toString", "__proto__"}
ScoreEntries ==
    {Score(x) : x \in {0, 39, 40, 69, 70, 89, 90, 100}} \cup {VectorScore, NoScore}
OsvSeverities ==
    {NoSeverity} \cup
    {SeverityList(entries) : entries \in UNION {[1..n -> ScoreEntries] : n \in 0..MaxEntries}}

SeverityOf(tool, raw) ==
    CASE tool = "ZAP" -> mapZapRiskToSeverity(raw)
      [] tool = "OSV" -> mapOSVSeverityToSeverity(raw)
      [] tool = "Semgrep" -> mapSemgrepSeverityToSeverity(raw)
      [] tool = "Trivy" -> mapTrivySeverityToSeverity(raw)
      [] OTHER -> mapGitHubSeverityToSeverity(raw)

ApplySeverity(tool, raw) ==
    /\ probe = NoProbe
    /\ probe' = [fn |-> "severity", arg |-> [tool |-> tool, raw |-> raw],
                 ret |-> SeverityOf(tool, raw)]
    /\ UNCHANGED <<now, rnd, scanResults, mockFindings, calls, handler, lastResp,
                 policiesMockPolicies>>

NextMapper ==
    \/ \E alerts \in AlertLists, exclusions \in PatternLists :
          ApplyFilter(alerts, exclusions)
    \/ \E tool \in StringTools, raw \in RawSeverities : ApplySeverity(tool, raw)
    \/ \E raw \in OsvSeverities : ApplySeverity("OSV", raw)
    \/ \E cweId \in CweIds, wascId \in WascIds, alertName \in AlertNames :
          ApplyTags(cweId, wascId, alertName)
    \/ \E check_id \in CheckIds, message \in Messages :
          ApplySemgrepTags(check_id, message)

MapperSpec == Init /\ [][NextMapper]_vars

-----------------------------------------------------------------------------
(* One job whose target has a url and a package, so that the web scan and  *)
(* the dependency scan both have work to do                                *)

FanOutRequests ==
    { ScanRequest("t1", "policy-default-safe", "true", "true", MixedScope),
      ScanRequest("t1", "policy-dependency-only", "true", "true", MixedScope),
      ScanRequest("t1", "policy-default-safe", "true", "true", NoScope) }

NextFanOut ==
    \/ \E req \in FanOutRequests : PostScan(req, 1, MaxTicks)
    \/ PostRespond
    \/ Reads
    \/ Execution
    \/ Tick(MaxTicks)

FanOutSpec == Init /\ [][NextFanOut]_vars

-----------------------------------------------------------------------------
(* The policy routes (create, update, delete) next to one scan submission *)

\* `policy-${Date.now()}` at the times of the clock that occur
PolicyIdAt(t) ==
    CASE t = 0 -> "policy-0"
      [] t = TickMs -> "policy-5000"
      [] t = 2 * TickMs -> "policy-10000"
      [] t = 3 * TickMs -> "policy-15000"
      [] OTHER -> "policy-later"

\* mockPolicies.findIndex(p => p.id === id) in the policy routes; 0 for -1
PolicyIndex(id) ==
    LET hits == {i \in 1..Len(policiesMockPolicies) : policiesMockPolicies[i].id = id}
    IN IF hits = {} THEN 0 ELSE CHOOSE i \in hits : \A j \in hits : i <= j

\* {...old, ...body, id}
Merge(old, body, id) ==
    [k \in DOMAIN old \cup DOMAIN body \cup {"id"} |->
        IF k = "id" THEN id ELSE IF k \in DOMAIN body THEN body[k] ELSE old[k]]

\* splice(index, 1)
Splice(seq, index) == SubSeq(seq, 1, index - 1) \o SubSeq(seq, index + 1, Len(seq))

\* POST /policies
CreatePolicy(body) ==
    /\ handler = 0
    /\ Len(policiesMockPolicies) < Len(mockPolicies) + MaxCreated
    /\ IF body.name = "" \/ body.mode = "" \/ "allowedTools" \notin DOMAIN body
       THEN /\ lastResp' = Response(400, [op |-> "createPolicy", id |-> ""], Undefined)
            /\ UNCHANGED policiesMockPolicies
       ELSE LET newPolicy == [id |-> PolicyIdAt(now), mode |-> body.mode,
                              maxReqPerMin |-> 100, spiderDepth |-> 3,
                              allowedTools |-> body.allowedTools]
            IN /\ policiesMockPolicies' = Append(policiesMockPolicies, newPolicy)
               /\ lastResp' = Response(201, [op |-> "createPolicy", id |-> newPolicy.id],
                                       newPolicy)
    /\ UNCHANGED <<probe, now, rnd, scanResults, mockFindings, calls, handler>>

\* PUT /policies/:id
UpdatePolicy(id, body) ==
    /\ handler = 0
    /\ IF PolicyIndex(id) = 0
       THEN /\ lastResp' = Response(404, [op |-> "updatePolicy", id |-> id], Undefined)
            /\ UNCHANGED policiesMockPolicies
       ELSE LET updated == Merge(policiesMockPolicies[PolicyIndex(id)], body, id)
            IN /\ policiesMockPolicies' =
                     [policiesMockPolicies EXCEPT ![PolicyIndex(id)] = updated]
               /\ lastResp' = Response(200, [op |-> "updatePolicy", id |-> id], updated)
    /\ UNCHANGED <<probe, now, rnd, scanResults, mockFindings, calls, handler>>

\* DELETE /policies/:id
DeletePolicy(id) ==
    /\ handler = 0
    /\ IF PolicyIndex(id) = 0
       THEN /\ lastResp' = Response(404, [op |-> "deletePolicy", id |-> id], Undefined)
            /\ UNCHANGED policiesMockPolicies
       ELSE /\ policiesMockPolicies' = Splice(policiesMockPolicies, PolicyIndex(id))
            /\ lastResp' = Response(200, [op |-> "deletePolicy", id |-> id],
                                    [deleted |-> TRUE])
    /\ UNCHANGED <<probe, now, rnd, scanResults, mockFindings, calls, handler>>

PolicyBodies ==
    { [name |-> "Custom", mode |-> "safe", allowedTools |-> <<"OSV">>],
      [name |-> "Custom", mode |-> "safe"] }
PolicyUpdates == {[allowedTools |-> <<"ZAP">>]}
PolicyOpIds ==
    {"policy-dependency-only", "policy-missing"} \cup
    {PolicyIdAt(k * TickMs) : k \in 0..MaxTicks}

PolicyScanRequests ==
    {ScanRequest("t1", policyId, "true", "true", PackageScope) :
        policyId \in PolicyOpIds}

NextPolicy ==
    \/ \E body \in PolicyBodies : CreatePolicy(body)
    \/ \E id \in PolicyOpIds, body \in PolicyUpdates : UpdatePolicy(id, body)
    \/ \E id \in PolicyOpIds : DeletePolicy(id)
    \/ \E req \in PolicyScanRequests : PostScan(req, 1, MaxTicks)
    \/ PostRespond
    \/ Reads
    \/ \E k \in 1..MaxJobs, i \in TaskIndexes : \E out \in AllOutcomes :
          ToolResponse(k, i, out)
    \/ Tick(MaxTicks)

PolicySpec == Init /\ [][NextPolicy]_vars

-----------------------------------------------------------------------------
(* Dependency scans of one target next to the status edits of findings *)

\* PATCH /findings/:id/status
PatchStatus(id, status, justification) ==
    /\ handler = 0
    /\ LET findingIndex == FindIndex(mockFindings, id)
           old == mockFindings[findingIndex]
           updated == [k \in DOMAIN old \cup {"status", "lastUpdatedAt", "justification"} |->
                          CASE k = "status" -> status
                            [] k = "lastUpdatedAt" -> now
                            [] k = "justification" -> justification
                            [] OTHER -> old[k]]
       IN IF findingIndex = 0
          THEN /\ lastResp' = Response(404, [op |-> "patchStatus", id |-> id], Undefined)
               /\ UNCHANGED mockFindings
          ELSE /\ mockFindings' = [mockFindings EXCEPT ![findingIndex] = updated]
               /\ lastResp' = Response(200, [op |-> "patchStatus", id |-> id], updated)
    /\ UNCHANGED <<policiesMockPolicies, probe, now, rnd, scanResults, calls, handler>>

UnknownFindingId == <<"osv-finding", 0, 99>>
FindingIds == {mockFindings[i].id : i \in 1..Len(mockFindings)} \cup {UnknownFindingId}

FindingsScanRequests ==
    {ScanRequest("t1", "policy-dependency-only", "true", "true", PackageScope)}

NextFindings ==
    \/ \E req \in FindingsScanRequests : PostScan(req, MaxJobs, MaxTicks)
    \/ PostRespond
    \/ \E id \in FindingIds : PatchStatus(id, "resolved", "fixed")
    \/ Reads
    \/ \E k \in 1..MaxJobs, i \in TaskIndexes : \E out \in AllOutcomes :
          ToolResponse(k, i, out)
    \/ Tick(MaxTicks)

FindingsSpec == Init /\ [][NextFindings]_vars

-----------------------------------------------------------------------------
(* One job and the cancel requests for it, their answers kept *)

NextCancel ==
    \/ \E req \in ScanRequests : PostScan(req, 1, MaxTicks)
    \/ PostRespond
    \/ \E jobId \in JobIds : CancelScan(jobId, TRUE)
    \/ Reads
    \/ Execution
    \/ Tick(MaxTicks)

CancelSpec == Init /\ [][NextCancel]_vars

-----------------------------------------------------------------------------
(* Properties *)

Terminal == {"completed", "failed", "cancelled"}
Statuses == {"running"} \cup Terminal

FlagsBothTrue(req) == req.consentAccepted = "true" /\ req.ownershipAttested = "true"

Fulfilled(tasks) == {i \in 1..Len(tasks) : tasks[i].pc = "fulfilled"}
Rejected(tasks) == {i \in 1..Len(tasks) : tasks[i].pc = "rejected"}
\* the findings the tasks in I hold, as positions and as records
Held(tasks, I) == UNION {{<<i, j>> : j \in 1..Len(tasks[i].acc)} : i \in I}
HeldFindings(tasks, I) == UNION {Range(tasks[i].acc) : i \in I}

\* the calls made by the route whose result has been stored
Stored == {k \in 1..Len(calls) : calls[k].bg /\ calls[k].result # Undefined}

C2_PartialFailure ==
    \A k \in 1..Len(calls) :
        LET tasks == calls[k].tasks
            result == calls[k].result
        IN (result # Undefined /\ Rejected(tasks) # {} /\ Fulfilled(tasks) # {}) =>
              /\ result.status = "completed"
              /\ Len(result.findings) = Cardinality(Held(tasks, Fulfilled(tasks)))
              /\ Range(result.findings) = HeldFindings(tasks, Fulfilled(tasks))
              /\ Len(result.errors) = Cardinality(Rejected(tasks))
              /\ \A i \in Rejected(tasks) :
                    \E j \in 1..Len(result.errors) :
                        result.errors[j].tool = tasks[i].tool

\* one tool raised, the other returned three findings, and executeScan returned
C2_Witness ==
    \E k \in 1..Len(calls) :
        /\ calls[k].result # Undefined
        /\ Cardinality(Rejected(calls[k].tasks)) = 1
        /\ Len(calls[k].result.findings) = 3
        /\ Len(calls[k].result.errors) = 1

\* C3: when a job's result is stored, every tool of the job that had a call to
\* its external service fail or time out has an entry in the result's errors.
C3_FailuresRecorded ==
    \A k \in Stored :
        \A i \in 1..Len(calls[k].tasks) :
            calls[k].tasks[i].fault =>
                \E j \in 1..Len(calls[k].result.errors) :
                    calls[k].result.errors[j].tool = calls[k].tasks[i].tool

\* C4: the status of a job is running, completed or failed; a job stays in the
\* store, and its status changes only from running to completed or failed.
C4_StatusMonotonic ==
    [][ /\ \A j \in DOMAIN scanResults' : scanResults'[j].status \in Statuses
        /\ \A j \in DOMAIN scanResults :
              /\ j \in DOMAIN scanResults'
              /\ scanResults'[j].status # scanResults[j].status =>
                    /\ scanResults[j].status = "running"
                    /\ scanResults'[j].status \in Terminal ]_vars

\* a job is completed and a job submitted after its end is running
C4_Witness ==
    \E j1, j2 \in DOMAIN scanResults :
        /\ scanResults[j1].status = "completed"
        /\ scanResults[j2].status = "running"
        /\ scanResults[j2].startedAt >= scanResults[j1].finishedAt

\* C5: a tool of a job submitted through the route has a request out to its
\* external service only after the answer to the submission has been sent.
C5_RespondBeforeTools ==
    \A k \in 1..Len(calls) :
        (calls[k].bg /\ \E i \in 1..Len(calls[k].tasks) :
                            calls[k].tasks[i].pc \in NetworkPcs)
            => calls[k].responded

\* C6: a read of a job that shows a terminal status shows the final record:
\* every tool of the job has settled, and the record has its end time, its
\* errors, all the findings of the tools that succeeded and their summary.
C6_ReadsSeeFinal ==
    \A jobId \in DOMAIN scanResults :
        LET data == GetScanResponse(jobId).data
        IN data.status \in Terminal =>
              \E k \in 1..Len(calls) :
                  /\ calls[k].jobId = jobId
                  /\ AllSettled(calls[k].tasks)
                  /\ {"findings", "summary", "errors", "finishedAt"} \subseteq DOMAIN data
                  /\ Len(data.findings) =
                        Cardinality(Held(calls[k].tasks, Fulfilled(calls[k].tasks)))
                  /\ Range(data.findings) =
                        HeldFindings(calls[k].tasks, Fulfilled(calls[k].tasks))
                  /\ data.summary.total = Len(data.findings)
                  /\ data.summary = calculateSummary(data.findings)
                  /\ data.finishedAt <= now

\* a read shows a completed job with findings while another job is running
C6_Witness ==
    \E j1, j2 \in DOMAIN scanResults :
        /\ GetScanResponse(j1).data.status = "completed"
        /\ Len(GetScanResponse(j1).data.findings) > 0
        /\ GetScanResponse(j2).data.status = "running"

\* C7: a job that has been accepted eventually has a terminal status.
C7_EventuallyTerminal ==
    (Len(calls) >= 1) ~>
        (Len(calls) >= 1 /\ scanResults[calls[1].jobId].status \in Terminal)

\* the job ended after its spider wait ran into the ceiling
C7_Witness ==
    /\ Len(calls) >= 1
    /\ scanResults[calls[1].jobId].status \in Terminal
    /\ \E i \in 1..Len(calls[1].tasks) :
          /\ calls[1].tasks[i].fault
          /\ now - calls[1].tasks[i].start >= SpiderMaxWaitMs

\* C8: once a job's result is stored, the findings query for the job's target
\* returns each finding recorded in the job exactly once.
C8_FindingsRoundTrip ==
    \A k \in Stored :
        LET recorded == scanResults[calls[k].jobId].findings
            answer == GetFindingsResponse(calls[k].target.id).data
        IN \A i \in 1..Len(recorded) :
              Cardinality({j \in 1..Len(answer) : answer[j] = recorded[i]}) = 1

\* C9: two different findings among all the findings the jobs have recorded
\* never have the same id.
C9_UniqueFindingIds ==
    \A k1, k2 \in Stored :
        \A i1 \in 1..Len(calls[k1].result.findings) :
            \A i2 \in 1..Len(calls[k2].result.findings) :
                (<<k1, i1>> # <<k2, i2>>) =>
                    calls[k1].result.findings[i1].id # calls[k2].result.findings[i2].id

\* C10: the step that accepts a submission adds exactly one record to the job
\* store, under an id that was not in the store, with status running, and
\* leaves every record that was in the store as it was.
C10_OneFreshJob ==
    [][ Len(calls') # Len(calls) =>
          LET jobId == calls'[Len(calls')].jobId
          IN /\ Len(calls') = Len(calls) + 1
             /\ jobId \notin DOMAIN scanResults
             /\ DOMAIN scanResults' = DOMAIN scanResults \cup {jobId}
             /\ scanResults'[jobId].status = "running"
             /\ \A j \in DOMAIN scanResults : scanResults'[j] = scanResults[j] ]_vars

\* the same body was submitted twice in the same millisecond and the store
\* holds two jobs for it
C10_Witness ==
    \E j1, j2 \in DOMAIN scanResults :
        /\ j1 # j2
        /\ scanResults[j1].status = "running" /\ scanResults[j2].status = "running"
        /\ scanResults[j1].targetId = scanResults[j2].targetId
        /\ scanResults[j1].policyId = scanResults[j2].policyId
        /\ scanResults[j1].startedAt = scanResults[j2].startedAt

KnownTarget(targetId) == \E i \in 1..Len(mockTargets) : mockTargets[i].id = targetId

\* C11: a status, progress or cancel request for a job id that is not in the
\* job store is answered 404, and every job in the store was submitted with a
\* targetId of the target store and a policyId of the policy list.
C11_UnknownIdsNotFound ==
    /\ \A k \in 1..Len(calls) :
          calls[k].bg =>
              /\ KnownTarget(calls[k].req.targetId)
              /\ FindPolicy(calls[k].req.policyId) # Undefined
    /\ \A jobId \in JobIds \ DOMAIN scanResults :
          /\ GetScanResponse(jobId).code = 404
          /\ GetProgressResponse(jobId).code = 404
          /\ CancelResponse(jobId).code = 404

\* the record of a job shows that its cancellation was requested
CancelReflected(scanData) ==
    \/ scanData.status = "cancelled"
    \/ "cancelRequested" \in DOMAIN scanData
    \/ "desiredState" \in DOMAIN scanData

\* C12: when a cancel request for a running job is answered cancelled = true,
\* the job's record after the request shows that cancellation was requested.
C12_CancelRecorded ==
    [][ ( /\ lastResp' # lastResp
          /\ "cancelled" \in DOMAIN lastResp'.data
          /\ lastResp'.data.cancelled
          /\ lastResp'.arg.jobId \in DOMAIN scanResults
          /\ scanResults[lastResp'.arg.jobId].status = "running" )
        => CancelReflected(scanResults'[lastResp'.arg.jobId]) ]_vars

PassivePcs == {"spider", "status", "pollSleep", "spiderResults", "settle", "alerts"}

DeclaredUrls(req) ==
    {id.value : id \in {d \in Range(req.scopeSnapshot.identifiers) : d.type = "url"}}

\* C14: the URL a job of the route gives to the spider is the value of a url
\* identifier declared in the submission's scope snapshot.
C14_DeclaredTargetsOnly ==
    \A k \in 1..Len(calls) : \A i \in 1..Len(calls[k].tasks) :
        (calls[k].bg /\ calls[k].tasks[i].url # "") =>
            calls[k].tasks[i].url \in DeclaredUrls(calls[k].req)

\* the location of finding f matches one of the patterns
LocationExcluded(f, exclusions) ==
    \E p \in 1..Len(exclusions) : RegexTest(exclusions[p], f.location)

\* C15: no finding recorded for a job, and no finding the job put into the
\* findings store, has a location that matches an exclusion pattern declared
\* on the job's policy; the summary counts only findings that are kept.
C15_ExclusionsApplied ==
    \A k \in Stored :
        LET declared == DeclaredExclusions(calls[k].req.policyId)
            recorded == scanResults[calls[k].jobId].findings
        IN /\ \A i \in 1..Len(recorded) : ~LocationExcluded(recorded[i], declared)
           /\ \A i \in 1..Len(mockFindings) :
                 mockFindings[i].id \in {recorded[j].id : j \in 1..Len(recorded)}
                     => ~LocationExcluded(mockFindings[i], declared)
           /\ scanResults[calls[k].jobId].summary.total =
                 Cardinality({i \in 1..Len(recorded) :
                                 ~LocationExcluded(recorded[i], declared)})

\* alert i is matched by none of the patterns
KeptByAll(alert, exclusions) ==
    \A p \in 1..Len(exclusions) : ~RegexTest(exclusions[p], alert.url)

\* C16: the filter returns, in their order, exactly the alerts whose URL no
\* pattern matches; with no pattern it returns the alerts as they are; with
\* the pattern */admin/* and alerts at http://x/api/admin/y and
\* http://x/api/public/y it returns the second alone.
C16_ExclusionFilter ==
    probe.fn = "filter" =>
        LET alerts == probe.arg.alerts
            exclusions == probe.arg.exclusions
        IN /\ probe.ret = SelectSeq(alerts, LAMBDA a : KeptByAll(a, exclusions))
           /\ exclusions = <<>> => probe.ret = alerts
           /\ ( /\ exclusions = <<"*/admin/*">>
                /\ alerts = <<[url |-> "http://x/api/admin/y"],
                              [url |-> "http://x/api/public/y"]>> )
                 => probe.ret = <<[url |-> "http://x/api/public/y"]>>

\* the filter was applied with */admin/* to the two alerts and kept the second
C16_Witness ==
    /\ probe.fn = "filter"
    /\ probe.arg.exclusions = <<"*/admin/*">>
    /\ probe.arg.alerts = <<[url |-> "http://x/api/admin/y"],
                            [url |-> "http://x/api/public/y"]>>
    /\ probe.ret = <<[url |-> "http://x/api/public/y"]>>

\* C17: the tags of an alert with CWE id 306 contain both A01 and A07.
C17_Cwe306BothTags ==
    (probe.fn = "tags" /\ probe.arg.cweId = 306) =>
        {"A01", "A07"} \subseteq Range(probe.ret)

\* C18: when the CWE table has an entry for the alert's CWE id the tags are
\* that entry; otherwise, when the WASC table has an entry for its WASC id,
\* the tags are that entry.
C18_StrictPrecedence ==
    probe.fn = "tags" =>
        IF probe.arg.cweId \in CweKeys
        THEN Range(probe.ret) = Range(cweToOwasp(probe.arg.cweId))
        ELSE probe.arg.wascId \in WascKeys =>
                Range(probe.ret) = Range(wascToOwasp(probe.arg.wascId))

\* the substrings of the alert name and the tag each of them yields
ListedNameRules ==
    { <<"sql injection", "A03">>, <<"sqli", "A03">>, <<"xss", "A03">>,
      <<"cross-site scripting", "A03">>, <<"csrf", "A01">>, <<"ssrf", "A10">>,
      <<"authentication", "A07">>, <<"authorization", "A01">>,
      <<"access control", "A01">>, <<"misconfiguration", "A05">>,
      <<"crypto", "A02">>, <<"encryption", "A02">>, <<"ssl", "A02">>,
      <<"tls", "A02">> }

NoTableEntry == probe.arg.cweId \notin CweKeys /\ probe.arg.wascId \notin WascKeys

\* C19: when neither table has an entry, the tags are those of the listed
\* substrings that the lower-cased alert name contains.
C19_NameHeuristics ==
    (probe.fn = "tags" /\ NoTableEntry) =>
        \A rule \in ListedNameRules :
            Includes(ToLower(Chars(probe.arg.alertName)), rule[1])
                => Range(probe.ret) = {rule[2]}

\* the substrings the Semgrep mapping tests
SemgrepRuleMatches(check_id, message) ==
    \/ \E sub \in {"sql", "injection", "xss", "auth", "crypto", "log"} :
          Includes(ToLower(Chars(check_id)), sub)
    \/ \E sub \in {"sql injection", "xss", "cross-site scripting", "authentication",
                   "encryption", "cipher", "logging"} :
          Includes(ToLower(Chars(message)), sub)

\* C20: the tags have no duplicates, and they are empty when no rule matches:
\* for an alert, when neither table has an entry and the name contains none
\* of the listed substrings; for a Semgrep result, when its check id and
\* message contain none of the substrings its mapping tests.
C20_NoInventedTags ==
    /\ probe.fn \in {"tags", "semgrepTags"} =>
          Cardinality(Range(probe.ret)) = Len(probe.ret)
    /\ ( /\ probe.fn = "tags"
         /\ NoTableEntry
         /\ \A rule \in ListedNameRules :
               ~Includes(ToLower(Chars(probe.arg.alertName)), rule[1]) )
          => probe.ret = <<>>
    /\ ( /\ probe.fn = "semgrepTags"
         /\ ~SemgrepRuleMatches(probe.arg.check_id, probe.arg.message) )
          => probe.ret = <<>>

CanonicalSeverities == {"critical", "high", "medium", "low", "info"}

\* the raw severities a tool's mapping knows
Vocabulary(tool) ==
    CASE tool = "ZAP" -> DOMAIN riskMap
      [] tool = "Semgrep" -> DOMAIN semgrepSeverityMap
      [] tool = "Trivy" -> DOMAIN trivySeverityMap
      [] OTHER -> DOMAIN githubSeverityMap

NumericEntries(entries) == {i \in 1..Len(entries) : entries[i].type = "number"}

\* outside the vocabulary: for the dependency tool a value that is no list,
\* or a list of entries none of which has a number as its score
OutsideVocabulary(tool, raw) ==
    IF tool = "OSV"
    THEN ~raw.isArray \/ (raw.entries # <<>> /\ NumericEntries(raw.entries) = {})
    ELSE raw \notin Vocabulary(tool)

\* C21: a raw severity outside the tool's vocabulary (a missing value, and
\* for the dependency tool entries whose score is not a number, included) is
\* mapped to medium, and every raw severity is mapped to one of critical,
\* high, medium, low, info.
C21_UnknownIsMedium ==
    probe.fn = "severity" =>
        /\ probe.ret \in CanonicalSeverities
        /\ OutsideVocabulary(probe.arg.tool, probe.arg.raw) => probe.ret = "medium"

MaxScore(entries) ==
    CHOOSE x \in {entries[i].score : i \in NumericEntries(entries)} :
        \A i \in NumericEntries(entries) : entries[i].score <= x

Bucket(score) ==
    IF score >= 90 THEN "critical"
    ELSE IF score >= 70 THEN "high"
    ELSE IF score >= 40 THEN "medium"
    ELSE "low"

\* C22: for a dependency vulnerability with scored severity entries the
\* highest score alone gives the bucket (at least 9 critical, at least 7
\* high, at least 4 medium, else low; scores times ten), whatever the order
\* of the entries: 9 exactly is critical and 8.9 is high.
C22_HighestScoreBucket ==
    ( /\ probe.fn = "severity" /\ probe.arg.tool = "OSV"
      /\ probe.arg.raw.isArray
      /\ NumericEntries(probe.arg.raw.entries) # {} ) =>
        /\ probe.ret = Bucket(MaxScore(probe.arg.raw.entries))
        /\ MaxScore(probe.arg.raw.entries) = 90 => probe.ret = "critical"
        /\ MaxScore(probe.arg.raw.entries) = 89 => probe.ret = "high"

C22_Witness ==
    /\ probe.fn = "severity" /\ probe.arg.tool = "OSV"
    /\ probe.arg.raw = SeverityList(<<Score(90), Score(89)>>)
    /\ probe.ret = "critical"

\* the count a summary holds for a severity, 0 when it holds none
SummaryCount(summary, sev) == IF sev \in DOMAIN summary THEN summary[sev] ELSE 0

\* C23: the summary of a completed job holds, for each of critical, high,
\* medium, low and info, the number of the job's findings of that severity,
\* and these counts add up to the number of the job's findings.
C23_SummaryPerSeverity ==
    \A jobId \in DOMAIN scanResults :
        scanResults[jobId].status = "completed" =>
            LET summary == scanResults[jobId].summary
                findings == scanResults[jobId].findings
            IN /\ SummaryCount(summary, "critical") + SummaryCount(summary, "high")
                  + SummaryCount(summary, "medium") + SummaryCount(summary, "low")
                  + SummaryCount(summary, "info") = Len(findings)
               /\ \A sev \in CanonicalSeverities :
                     /\ sev \in DOMAIN summary
                     /\ summary[sev] = CountSeverity(findings, sev)

\* the identifier types an adapter works on
RequiredTypes(tool) ==
    CASE ToLowerCase(tool) = "zap" -> {"url"}
      [] ToLowerCase(tool) = "osv" -> PackageTypes
      [] ToLowerCase(tool) = "trivy" -> ContainerTypes
      [] OTHER -> {"repository"}

AdapterTools == {"ZAP", "OSV", "Trivy", "Semgrep", "GitHub"}

\* C24: an adapter whose target has no identifier of the type it needs
\* returns an empty finding list: it does not raise, and the job's errors
\* get no entry for it.
C24_NoIdentifierNoOp ==
    \A k \in 1..Len(calls) : \A i \in 1..Len(calls[k].tasks) :
        LET task == calls[k].tasks[i]
        IN ( /\ task.tool \in AdapterTools
             /\ WithType(calls[k].target.identifiers, RequiredTypes(task.tool)) = <<>> ) =>
              /\ task.pc = "fulfilled" /\ task.acc = <<>>
              /\ calls[k].result # Undefined =>
                    \A e \in 1..Len(calls[k].result.errors) :
                        calls[k].result.errors[e].tool # task.tool

CredentialTools == {"Semgrep", "GitHub"}

\* C25: an adapter whose credential is missing is skipped with no findings:
\* it makes no external call and raises nothing, the job's errors get no
\* entry for it, its sibling tools are launched all the same, and the job's
\* result is a completed one.
C25_MissingCredentialSkips ==
    \A k \in 1..Len(calls) : \A i \in 1..Len(calls[k].tasks) :
        LET task == calls[k].tasks[i]
        IN (task.tool \in CredentialTools /\ ~task.cred) =>
              /\ task.pc = "fulfilled" /\ task.acc = <<>> /\ ~task.fault
              /\ Len(calls[k].tasks) = Len(calls[k].policy.tools)
              /\ \A j \in 1..Len(calls[k].tasks) :
                    /\ calls[k].tasks[j].tool = calls[k].policy.tools[j]
                    /\ calls[k].tasks[j].pc # "new"
              /\ calls[k].result # Undefined =>
                    /\ calls[k].result.status = "completed"
                    /\ \A e \in 1..Len(calls[k].result.errors) :
                          calls[k].result.errors[e].tool # task.tool

\* a static-analysis tool without API key next to a dependency scan that
\* found something, in a completed job without errors
C25_Witness ==
    \E k \in 1..Len(calls) :
        /\ Len(calls[k].tasks) = 2
        /\ calls[k].tasks[1].tool = "Semgrep" /\ ~calls[k].tasks[1].cred
        /\ calls[k].tasks[2].tool = "OSV"
        /\ calls[k].result # Undefined
        /\ calls[k].result.status = "completed"
        /\ calls[k].result.errors = <<>>
        /\ Len(calls[k].result.findings) > 0

\* task i of the first call is a web scan inside waitForScanCompletion
ZapWaiting(i) ==
    /\ Len(calls) >= 1 /\ i \in 1..Len(calls[1].tasks)
    /\ calls[1].tasks[i].tool = "ZAP"
    /\ calls[1].tasks[i].pc \in {"status", "pollSleep"}

Changed(k) == {i \in 1..Len(calls[k].tasks) : calls'[k].tasks[i] # calls[k].tasks[i]}

\* C27: every tool of the policy's list, and no other, is launched in the
\* step that starts the execution, before any of them is awaited; a step of
\* one tool leaves its siblings as they are; the result exists, and the
\* job's terminal record is stored, only when every tool has settled, and
\* the result is there as soon as the last one has.
C27_LaunchAllSettleAll ==
    [][ \A k \in 1..Len(calls') :
          LET call == calls'[k]
          IN /\ Len(call.tasks) = Len(call.policy.tools)
             /\ \A i \in 1..Len(call.tasks) :
                   /\ call.tasks[i].tool = call.policy.tools[i]
                   /\ call.tasks[i].pc # "new"
             /\ call.result # Undefined => AllSettled(call.tasks)
             /\ scanResults'[call.jobId].status \in Terminal => AllSettled(call.tasks)
             /\ (AllSettled(call.tasks) /\ handler' = 0) =>
                   /\ call.result # Undefined
                   /\ scanResults'[call.jobId].status \in Terminal
             /\ k <= Len(calls) => Cardinality(Changed(k)) <= 1 ]_vars

\* the dependency scan has ended with findings while the web scan, launched
\* before it in the list, is still polling
C27_Witness ==
    \E k \in 1..Len(calls) :
        /\ Len(calls[k].tasks) = 2
        /\ calls[k].tasks[1].tool = "ZAP"
        /\ calls[k].tasks[1].pc \in {"status", "pollSleep"}
        /\ calls[k].tasks[2].tool = "OSV"
        /\ calls[k].tasks[2].pc = "fulfilled"
        /\ Len(calls[k].tasks[2].acc) > 0
        /\ calls[k].result = Undefined
        /\ scanResults[calls[k].jobId].status = "running"

\* the policy with this id as the policy routes hold it now, or Undefined
CurrentPolicy(policyId) ==
    IF PolicyIndex(policyId) = 0 THEN Undefined
    ELSE policiesMockPolicies[PolicyIndex(policyId)]

\* C28: a submission is accepted exactly when its policyId names a policy
\* that the policy routes hold at that moment, and the tools it launches are
\* that policy's allowedTools as they are at that moment.
C28_CurrentPolicyGoverns ==
    [][ /\ ( /\ lastResp' # lastResp
             /\ "policyId" \in DOMAIN lastResp'.arg
             /\ lastResp'.code = 404 ) =>
                CurrentPolicy(lastResp'.arg.policyId) = Undefined
        /\ Len(calls') > Len(calls) =>
              LET call == calls'[Len(calls')]
              IN /\ CurrentPolicy(call.req.policyId) # Undefined
                 /\ call.policy.tools = CurrentPolicy(call.req.policyId).allowedTools
                 /\ [i \in 1..Len(call.tasks) |-> call.tasks[i].tool] =
                       CurrentPolicy(call.req.policyId).allowedTools ]_vars

EditedFields == {"status", "justification", "lastUpdatedAt"}

\* lastResp' is the answer, with this code, to a status edit
StatusEditAnswered(code) ==
    /\ "op" \in DOMAIN lastResp'.arg
    /\ lastResp'.arg.op = "patchStatus"
    /\ lastResp'.code = code

\* C29: a stored finding stays in the store and changes only by a status
\* edit of that finding, which changes its status, justification and
\* lastUpdatedAt and nothing else; the findings of a later job never replace
\* or alter it; a status edit of an unknown id is answered not-found and
\* changes nothing.
C29_StoredFindingsImmutable ==
    [][ /\ Len(mockFindings') >= Len(mockFindings)
        /\ \A i \in 1..Len(mockFindings) :
              mockFindings'[i] # mockFindings[i] =>
                  /\ StatusEditAnswered(200)
                  /\ lastResp'.arg.id = mockFindings[i].id
                  /\ lastResp'.data = mockFindings'[i]
                  /\ \A k \in DOMAIN mockFindings[i] \ EditedFields :
                        /\ k \in DOMAIN mockFindings'[i]
                        /\ mockFindings'[i][k] = mockFindings[i][k]
                  /\ \A j \in 1..Len(mockFindings) :
                        j # i => mockFindings'[j] = mockFindings[j]
        /\ (StatusEditAnswered(404) /\ lastResp' # lastResp) =>
              /\ mockFindings' = mockFindings
              /\ FindIndex(mockFindings, lastResp'.arg.id) = 0 ]_vars

====
